---- MODULE Spec2Model ----
(***************************************************************************)
(* Model of aloha.py: a discrete-event simulation of the pure ALOHA        *)
(* protocol.  The simpy environment is modelled as an event list ordered   *)
(* by (time, priority, insertion order); every callback that simpy runs    *)
(* when it processes one event is one action.  Virtual times, the number   *)
(* of stations and the number of replications are scaled down.             *)
(***************************************************************************)
EXTENDS Integers, Sequences, FiniteSets, TLC

\* Program parameters (aloha.py lines 10-14), scaled down.
NUM_STATIONS == 2
NUM_REPLICATIONS == 2
TRANSIENT_TIME == 3
TERMINATE_TIME == 6
STEADY_STATE_TIME == TERMINATE_TIME - TRANSIENT_TIME

\* Bounds of the model.
MaxMsgs == 2            \* messages a station generates per replication
MaxInterArrival == 4    \* largest inter-arrival gap that is not "beyond the horizon"
MaxFrameTime == 2       \* largest frame duration drawn
MaxRetryTime == 1       \* largest back-off delay drawn

Stations == 0 .. (NUM_STATIONS - 1)
Names == 0 .. (MaxMsgs - 1)
FrameIds == Stations \X Names

\* The variates.  poisson.rvs gives any integer >= 0: the gaps up to
\* MaxInterArrival, and one gap that lands beyond the horizon.
InterArrivalTimes == (0 .. MaxInterArrival) \cup {TERMINATE_TIME}
FrameTimes == 1 .. MaxFrameTime
RetryTimes == 0 .. MaxRetryTime

\* simpy event priorities
URGENT == 0
NORMAL == 1

None == -1

VARIABLES
    pc,                 \* position of the main program
    r,                  \* replication index of the loop at line 266
    now,                \* env.now
    queue,              \* the environment's event list, in processing order
    frames_in_transmit, \* Station.frames_in_transmit (class attribute)
    stations,           \* the Station objects of the current replication
    msgs,               \* the wait_for_service/transmit processes, per message
    report,             \* what generate_report_single_replication computed
    failure,            \* the exception that ended the program, if any
    attempts            \* history: the attempts completed in this replication

vars == <<pc, r, now, queue, frames_in_transmit, stations, msgs, report,
          failure, attempts>>

----------------------------------------------------------------------------
\* The event list of simpy.Environment

Event(t, p, k, s, m) == [time |-> t, priority |-> p, kind |-> k, station |-> s, msg |-> m]

\* Environment.schedule: events are processed by time, then priority, then
\* in the order they were scheduled.
RECURSIVE schedule(_, _)
schedule(q, ev) ==
    IF q = <<>> THEN <<ev>>
    ELSE IF \/ Head(q).time < ev.time
            \/ (Head(q).time = ev.time /\ Head(q).priority <= ev.priority)
         THEN <<Head(q)>> \o schedule(Tail(q), ev)
         ELSE <<ev>> \o q

RECURSIVE scheduleAll(_, _)
scheduleAll(q, evs) ==
    IF evs = <<>> THEN q ELSE scheduleAll(schedule(q, Head(evs)), Tail(evs))

\* Station.__init__
NewStation ==
    [ i |-> 0,
      arrivals |-> <<>>,
      users |-> <<>>,
      put_queue |-> <<>>,
      initial_reset_completed |-> FALSE,
      nt |-> 0,
      st |-> 0,
      num_retries |-> 0,
      num_initial_transmits |-> 0,
      busy_time |-> 0,
      steady_state_time |-> 0,
      U |-> <<0, 1>> ]

NewMsg == [ stage |-> "unborn", arrival |-> None, arrival_time |-> None,
            service_start |-> None, frame_time |-> None, transmit_time |-> None ]

\* The environment of one replication right after the stations are
\* constructed and env.run(until=TERMINATE_TIME) has been entered.
NewQueue(n) ==
    [ s \in 1 .. n |-> Event(0, URGENT, "arrive_init", s - 1, None) ]
    \o << Event(TERMINATE_TIME, URGENT, "until", None, None) >>

NoReport == [ mean_t |-> <<0, 1>>, mean_r |-> <<0, 1>>, mean_U |-> <<0, 1>> ]

Init ==
    /\ pc = "run"
    /\ r = 0
    /\ now = 0
    /\ queue = NewQueue(NUM_STATIONS)
    /\ frames_in_transmit = << >>
    /\ stations = [ s \in Stations |-> NewStation ]
    /\ msgs = [ id \in FrameIds |-> NewMsg ]
    /\ report = NoReport
    /\ failure = "none"
    /\ attempts = {}

\* The program with NUM_STATIONS = 1: only 'Station 0' is constructed.
InitOneStation ==
    /\ pc = "run"
    /\ r = 0
    /\ now = 0
    /\ queue = NewQueue(1)
    /\ frames_in_transmit = << >>
    /\ stations = [ s \in {0} |-> NewStation ]
    /\ msgs = [ id \in FrameIds |-> NewMsg ]
    /\ report = NoReport
    /\ failure = "none"
    /\ attempts = {}

----------------------------------------------------------------------------
\* Helpers

\* the gaps arrive() may draw: after MaxMsgs messages only the gap that
\* lands beyond the horizon
Gaps(n) == IF n < MaxMsgs THEN InterArrivalTimes ELSE {TERMINATE_TIME}

\* dict without a key
RemoveKey(f, k) == [ x \in (DOMAIN f) \ {k} |-> f[x] ]

\* dict with a key set
PutKey(f, k, v) == [ x \in (DOMAIN f) \cup {k} |-> IF x = k THEN v ELSE f[x] ]

\* a create_frame that forgets to add the current time to the end
create_frame_end_is_duration(t, frame_time) ==
    [ start |-> t, end |-> frame_time, frame_time |-> frame_time,
      retry |-> FALSE, rep |-> r ]

\* Frame.__init__ via Station.create_frame
create_frame(t, frame_time) ==
    [ start |-> t, end |-> t + frame_time, frame_time |-> frame_time,
      retry |-> FALSE, rep |-> r ]

add_frame_in_transmit(reg, frame, frame_id) == PutKey(reg, frame_id, frame)

remove_frame_in_transmit(reg, frame_id) == RemoveKey(reg, frame_id)

\* the orders in which frames_in_transmit.keys() may list a set of ids: the
\* order of a dict's keys is not fixed by the program
RECURSIVE KeyOrders(_)
KeyOrders(K) ==
    IF K = {} THEN { <<>> }
    ELSE UNION { { <<k>> \o o : o \in KeyOrders(K \ {k}) } : k \in K }

\* a collision test for simultaneity instead of overlap
collides_same_start(other, start, end) == other.start = start

\* the collision test of check_collision for one registered frame
collides(other, start, end) == other.end > start /\ other.start < end

\* first loop of Station.check_collision, over the keys in the given order
RECURSIVE scan_collision(_, _, _, _, _, _)
scan_collision(reg, keys, start, end, frame_id, found) ==
    IF keys = <<>> THEN found
    ELSE scan_collision(reg, Tail(keys), start, end, frame_id,
                        IF Head(keys) # frame_id /\ collides(reg[Head(keys)], start, end)
                        THEN TRUE ELSE found)

\* has_collision of Station.check_collision
has_collision(reg, keys, start, end, frame_id) ==
    scan_collision(reg, keys, start, end, frame_id, FALSE)

\* second loop of Station.check_collision: every registered frame is set to retry
RECURSIVE set_all_retry(_, _)
set_all_retry(reg, keys) ==
    IF keys = <<>> THEN reg
    ELSE set_all_retry([ reg EXCEPT ![Head(keys)].retry = TRUE ], Tail(keys))

\* a check_collision that flags only the frame of the station that checks
check_collision_own_frame_only(reg, keys, start, end, frame_id) ==
    IF has_collision(reg, keys, start, end, frame_id)
    THEN [ key \in DOMAIN reg |->
             IF key = frame_id THEN [ reg[key] EXCEPT !.retry = TRUE ] ELSE reg[key] ]
    ELSE reg

\* a check_collision that flags only the frames that overlap the checking frame
check_collision_overlapping_only(reg, keys, start, end, frame_id) ==
    IF has_collision(reg, keys, start, end, frame_id)
    THEN [ key \in DOMAIN reg |->
             IF key = frame_id \/ collides(reg[key], start, end)
             THEN [ reg[key] EXCEPT !.retry = TRUE ] ELSE reg[key] ]
    ELSE reg

\* a check_collision with its two loops merged: a frame is flagged when it is
\* visited after the first colliding frame was seen
RECURSIVE flag_while_scanning(_, _, _, _, _, _)
flag_while_scanning(reg, keys, start, end, frame_id, found) ==
    IF keys = <<>> THEN reg
    ELSE LET key == Head(keys)
             hit == found \/ (key # frame_id /\ collides(reg[key], start, end))
         IN flag_while_scanning(
                IF hit THEN [ reg EXCEPT ![key].retry = TRUE ] ELSE reg,
                Tail(keys), start, end, frame_id, hit)

check_collision_single_pass(reg, keys, start, end, frame_id) ==
    flag_while_scanning(reg, keys, start, end, frame_id, FALSE)

\* Station.check_collision: on a collision every registered frame is set to retry
check_collision(reg, keys, start, end, frame_id) ==
    IF has_collision(reg, keys, start, end, frame_id)
    THEN set_all_retry(reg, keys)
    ELSE reg

\* a transmit that does not count the retry
record_attempt_forgets_retry(st, retry, elapsed) ==
    IF retry
    THEN st
    ELSE [ st EXCEPT !.busy_time = @ + elapsed ]

\* a transmit that counts the time of a collided frame as busy time
record_attempt_busy_on_retry(st, retry, elapsed) ==
    IF retry
    THEN [ st EXCEPT !.num_retries = @ + 1, !.busy_time = @ + elapsed ]
    ELSE [ st EXCEPT !.busy_time = @ + elapsed ]

\* the retry branch and the success branch of transmit, on the counters
record_attempt(st, retry, elapsed) ==
    IF retry
    THEN [ st EXCEPT !.num_retries = @ + 1 ]
    ELSE [ st EXCEPT !.busy_time = @ + elapsed ]

\* a retransmission that draws a new frame duration
resampled_frame_time(frame_time) == IF frame_time = 1 THEN MaxFrameTime ELSE 1

\* the frame duration of a retransmission: the one drawn before the loop
retransmit_frame_time(frame_time) == frame_time

\* a reset that forgets the count of successful transmissions
reset_forgets_nt(st) ==
    [ st EXCEPT !.st = 0, !.num_retries = 0,
                !.num_initial_transmits = 0, !.busy_time = 0 ]

\* Station.reset_statistical_counters
reset_statistical_counters(st) ==
    [ st EXCEPT !.nt = 0, !.st = 0, !.num_retries = 0,
                !.num_initial_transmits = 0, !.busy_time = 0 ]

\* simpy.Resource, capacity 1: grant the server to the oldest waiting
\* request if the server is free.  Gives the station and the events to schedule.
trigger_put(st, s, t) ==
    IF Len(st.users) < 1 /\ st.put_queue # <<>>
    THEN [ st |-> [ st EXCEPT !.users = Append(st.users, Head(st.put_queue)),
                              !.put_queue = Tail(st.put_queue) ],
           evs |-> << Event(t, NORMAL, "request", s, Head(st.put_queue)) >> ]
    ELSE [ st |-> st, evs |-> <<>> ]

RemoveUser(users, m) == SelectSeq(users, LAMBDA u : u # m)

----------------------------------------------------------------------------
\* One action per kind of event the environment processes

Running == pc = "run" /\ queue # <<>>

\* arrive(), first step: draw the first gap and wait for it
ArriveInit ==
    /\ Running
    /\ Head(queue).kind = "arrive_init"
    /\ LET ev == Head(queue)
           s == ev.station
       IN \E inter_t \in Gaps(stations[s].i) :
            /\ now' = ev.time
            /\ queue' = schedule(Tail(queue),
                                 Event(ev.time + inter_t, NORMAL, "arrive_timeout", s, None))
    /\ UNCHANGED <<pc, r, frames_in_transmit, stations, msgs, report, failure, attempts>>

\* arrive(), loop body: start wait_for_service for message i, draw the next gap
arrive ==
    /\ Running
    /\ Head(queue).kind = "arrive_timeout"
    /\ LET ev == Head(queue)
           s == ev.station
           name == stations[s].i
       IN /\ now' = ev.time
          /\ msgs' = [ msgs EXCEPT ![<<s, name>>].stage = "wfs_init" ]
          /\ stations' = [ stations EXCEPT ![s].i = name + 1 ]
          /\ \E inter_t \in Gaps(name + 1) :
                queue' = scheduleAll(Tail(queue),
                           << Event(ev.time, URGENT, "wfs_init", s, name),
                              Event(ev.time + inter_t, NORMAL, "arrive_timeout", s, None) >>)
    /\ UNCHANGED <<pc, r, frames_in_transmit, report, failure, attempts>>

\* wait_for_service up to "yield req"
wait_for_service ==
    /\ Running
    /\ Head(queue).kind = "wfs_init"
    /\ LET ev == Head(queue)
           s == ev.station
           name == ev.msg
           st1 == [ stations[s] EXCEPT
                      !.arrivals = Append(@, [ name |-> name, time |-> ev.time ]),
                      !.put_queue = Append(@, name) ]
           tp == trigger_put(st1, s, ev.time)
       IN /\ now' = ev.time
          /\ stations' = [ stations EXCEPT ![s] = tp.st ]
          /\ msgs' = [ msgs EXCEPT ![<<s, name>>].stage = "requesting" ]
          /\ queue' = scheduleAll(Tail(queue), tp.evs)
    /\ UNCHANGED <<pc, r, frames_in_transmit, report, failure, attempts>>

\* taking the newest arrival record instead of the oldest
pop(arrivals) == arrivals[Len(arrivals)]

\* the arrival record taken from the queue on a grant
popleft(arrivals) == Head(arrivals)

\* wait_for_service from the grant to "yield env.process(self.transmit(name))"
Granted ==
    /\ Running
    /\ Head(queue).kind = "request"
    /\ LET ev == Head(queue)
           s == ev.station
           name == ev.msg
           arrival == popleft(stations[s].arrivals)
       IN /\ now' = ev.time
          /\ stations' = [ stations EXCEPT ![s].arrivals =
                             SelectSeq(@, LAMBDA a : a # arrival) ]
          /\ msgs' = [ msgs EXCEPT ![<<s, name>>] =
                         [ @ EXCEPT !.stage = "transmit_init",
                                    !.arrival = arrival.name,
                                    !.arrival_time = arrival.time,
                                    !.service_start = ev.time ] ]
          /\ queue' = schedule(Tail(queue), Event(ev.time, URGENT, "transmit_init", s, name))
    /\ UNCHANGED <<pc, r, frames_in_transmit, report, failure, attempts>>

\* transmit up to the first "yield self.env.timeout(frame.frame_time)"
transmit ==
    /\ Running
    /\ Head(queue).kind = "transmit_init"
    /\ LET ev == Head(queue)
           s == ev.station
           name == ev.msg
           frame_id == <<s, name>>
       IN \E frame_time \in FrameTimes :
            /\ now' = ev.time
            /\ stations' = [ stations EXCEPT ![s].num_initial_transmits = @ + 1 ]
            /\ frames_in_transmit' =
                 add_frame_in_transmit(frames_in_transmit,
                                       create_frame(ev.time, frame_time), frame_id)
            /\ msgs' = [ msgs EXCEPT ![frame_id] =
                           [ @ EXCEPT !.stage = "in_frame",
                                      !.frame_time = frame_time,
                                      !.transmit_time = ev.time ] ]
            /\ queue' = schedule(Tail(queue),
                                 Event(ev.time + frame_time, NORMAL, "frame_timeout", s, name))
    /\ UNCHANGED <<pc, r, report, failure, attempts>>

\* transmit after the frame's duration: collision check, deregistration,
\* then either the retry branch or the success branch
EndOfFrame ==
    /\ Running
    /\ Head(queue).kind = "frame_timeout"
    /\ LET ev == Head(queue)
           s == ev.station
           name == ev.msg
           frame_id == <<s, name>>
           m == msgs[frame_id]
           start == m.transmit_time
           end == m.transmit_time + m.frame_time
       IN \E keys \in KeyOrders(DOMAIN frames_in_transmit) :
          \E checked \in { check_collision(frames_in_transmit, keys, start, end, frame_id) } :
          /\ now' = ev.time
          /\ IF frame_id \notin DOMAIN frames_in_transmit
             THEN /\ failure' = "KeyError"
                  /\ pc' = "aborted"
                  /\ UNCHANGED <<queue, frames_in_transmit, stations, msgs, attempts>>
             ELSE /\ frames_in_transmit' = remove_frame_in_transmit(checked, frame_id)
                  /\ attempts' = attempts \cup
                        { [ station |-> s, msg |-> name, start |-> start, end |-> end,
                            retry |-> checked[frame_id].retry ] }
                  /\ stations' = [ stations EXCEPT ![s] =
                        record_attempt(@, checked[frame_id].retry,
                                       ev.time - m.transmit_time) ]
                  /\ IF checked[frame_id].retry
                     THEN /\ msgs' = [ msgs EXCEPT ![frame_id].stage = "wait_init" ]
                          /\ queue' = schedule(Tail(queue),
                                         Event(ev.time, URGENT, "wait_init", s, name))
                     ELSE /\ msgs' = [ msgs EXCEPT ![frame_id].stage = "transmit_done" ]
                          /\ queue' = schedule(Tail(queue),
                                         Event(ev.time, NORMAL, "transmit_proc", s, name))
                  /\ UNCHANGED <<pc, failure>>
    /\ UNCHANGED <<r, report>>

\* wait(): draw the back-off delay and wait for it
wait ==
    /\ Running
    /\ Head(queue).kind = "wait_init"
    /\ LET ev == Head(queue)
           s == ev.station
           name == ev.msg
       IN \E retry_time \in RetryTimes :
            /\ now' = ev.time
            /\ msgs' = [ msgs EXCEPT ![<<s, name>>].stage = "in_backoff" ]
            /\ queue' = schedule(Tail(queue),
                                 Event(ev.time + retry_time, NORMAL, "wait_timeout", s, name))
    /\ UNCHANGED <<pc, r, frames_in_transmit, stations, report, failure, attempts>>

\* wait() returns when its delay has elapsed; its process event is triggered
EndOfWait ==
    /\ Running
    /\ Head(queue).kind = "wait_timeout"
    /\ LET ev == Head(queue)
           s == ev.station
           name == ev.msg
       IN /\ now' = ev.time
          /\ msgs' = [ msgs EXCEPT ![<<s, name>>].stage = "wait_done" ]
          /\ queue' = schedule(Tail(queue), Event(ev.time, NORMAL, "wait_proc", s, name))
    /\ UNCHANGED <<pc, r, frames_in_transmit, stations, report, failure, attempts>>

\* transmit after the back-off: the next pass of "while not success"
Retransmit ==
    /\ Running
    /\ Head(queue).kind = "wait_proc"
    /\ LET ev == Head(queue)
           s == ev.station
           name == ev.msg
           frame_id == <<s, name>>
           frame_time == retransmit_frame_time(msgs[frame_id].frame_time)
       IN /\ now' = ev.time
          /\ frames_in_transmit' =
               add_frame_in_transmit(frames_in_transmit,
                                     create_frame(ev.time, frame_time), frame_id)
          /\ msgs' = [ msgs EXCEPT ![frame_id] =
                         [ @ EXCEPT !.stage = "in_frame", !.frame_time = frame_time,
                                    !.transmit_time = ev.time ] ]
          /\ queue' = schedule(Tail(queue),
                               Event(ev.time + frame_time, NORMAL, "frame_timeout", s, name))
    /\ UNCHANGED <<pc, r, stations, report, failure, attempts>>

\* a reset that is not guarded by initial_reset_completed
InitialReset_every_time(st, t) ==
    IF t >= TRANSIENT_TIME
    THEN [ reset_statistical_counters(st) EXCEPT !.initial_reset_completed = TRUE ]
    ELSE st

\* the transient reset at the end of wait_for_service
InitialReset(st, t) ==
    IF ~st.initial_reset_completed /\ t >= TRANSIENT_TIME
    THEN [ reset_statistical_counters(st) EXCEPT !.initial_reset_completed = TRUE ]
    ELSE st

\* wait_for_service after transmit has returned, to the release of the server
Served ==
    /\ Running
    /\ Head(queue).kind = "transmit_proc"
    /\ LET ev == Head(queue)
           s == ev.station
           name == ev.msg
           m == msgs[<<s, name>>]
           st1 == [ stations[s] EXCEPT !.nt = @ + 1,
                                       !.st = @ + (ev.time - m.service_start) ]
           st2 == InitialReset(st1, ev.time)
       IN /\ now' = ev.time
          /\ stations' = [ stations EXCEPT ![s] =
                             [ st2 EXCEPT !.users = RemoveUser(@, name) ] ]
          /\ msgs' = [ msgs EXCEPT ![<<s, name>>].stage = "finished" ]
          /\ queue' = schedule(Tail(queue), Event(ev.time, NORMAL, "release", s, name))
    /\ UNCHANGED <<pc, r, frames_in_transmit, report, failure, attempts>>

\* the server's release event: the next waiting request is granted
Release ==
    /\ Running
    /\ Head(queue).kind = "release"
    /\ LET ev == Head(queue)
           s == ev.station
           tp == trigger_put(stations[s], s, ev.time)
       IN /\ now' = ev.time
          /\ stations' = [ stations EXCEPT ![s] = tp.st ]
          /\ queue' = scheduleAll(Tail(queue), tp.evs)
    /\ UNCHANGED <<pc, r, frames_in_transmit, msgs, report, failure, attempts>>

\* env.run(until=TERMINATE_TIME) returns
Until ==
    /\ Running
    /\ Head(queue).kind = "until"
    /\ now' = Head(queue).time
    /\ queue' = Tail(queue)
    /\ pc' = "station_reports"
    /\ UNCHANGED <<r, frames_in_transmit, stations, msgs, report, failure, attempts>>

----------------------------------------------------------------------------
\* The reports and the replication loop

\* Station.generate_report: the utilization as the pair (numerator, denominator)
generate_report(st, t) ==
    [ st EXCEPT !.steady_state_time = t - TRANSIENT_TIME,
                !.U = << st.busy_time, t - TRANSIENT_TIME >> ]

StationReports ==
    /\ pc = "station_reports"
    /\ stations' = [ s \in DOMAIN stations |-> generate_report(stations[s], now) ]
    /\ pc' = "replication_report"
    /\ UNCHANGED <<r, now, queue, frames_in_transmit, msgs, report, failure, attempts>>

RECURSIVE Sum(_, _)
Sum(f, S) == IF S = {} THEN 0
             ELSE LET x == CHOOSE y \in S : TRUE IN f[x] + Sum(f, S \ {x})

Total(field) == Sum([ s \in DOMAIN stations |-> stations[s][field] ], DOMAIN stations)

\* generate_report_single_replication
generate_report_single_replication ==
    /\ pc = "replication_report"
    /\ LET total_st == Total("st")
           total_nt == Total("nt")
           total_retries == Total("num_retries")
           total_initial_transmits == Total("num_initial_transmits")
           total_busy_time == Total("busy_time")
           mean_t == IF total_nt > 0 THEN << total_st, total_nt >> ELSE << 0, 1 >>
       IN IF total_initial_transmits = 0
          THEN /\ failure' = "ZeroDivisionError"
               /\ pc' = "aborted"
               /\ UNCHANGED report
          ELSE /\ report' = [ mean_t |-> mean_t,
                              mean_r |-> << total_retries, total_initial_transmits >>,
                              mean_U |-> << total_busy_time, STEADY_STATE_TIME >> ]
               /\ pc' = IF r + 1 < NUM_REPLICATIONS THEN "next_replication" ELSE "done"
               /\ UNCHANGED failure
    /\ UNCHANGED <<r, now, queue, frames_in_transmit, stations, msgs, attempts>>

\* the next pass of the loop over replications: a new environment and new
\* stations; the class attribute frames_in_transmit is not touched
NextReplication ==
    /\ pc = "next_replication"
    /\ r' = r + 1
    /\ pc' = "run"
    /\ now' = 0
    /\ queue' = NewQueue(Cardinality(DOMAIN stations))
    /\ stations' = [ s \in DOMAIN stations |-> NewStation ]
    /\ msgs' = [ id \in FrameIds |-> NewMsg ]
    /\ report' = NoReport
    /\ attempts' = {}
    /\ UNCHANGED <<frames_in_transmit, failure>>

Next ==
    \/ ArriveInit
    \/ arrive
    \/ wait_for_service
    \/ Granted
    \/ transmit
    \/ EndOfFrame
    \/ wait
    \/ EndOfWait
    \/ Retransmit
    \/ Served
    \/ Release
    \/ Until
    \/ StationReports
    \/ generate_report_single_replication
    \/ NextReplication

Spec == Init /\ [][Next]_vars

\* the same program with a single station
SpecOneStation == InitOneStation /\ [][Next]_vars

\* the first pass of the loop over replications: env.run and the two reports
NextInReplication ==
    \/ ArriveInit
    \/ arrive
    \/ wait_for_service
    \/ Granted
    \/ transmit
    \/ EndOfFrame
    \/ wait
    \/ EndOfWait
    \/ Retransmit
    \/ Served
    \/ Release
    \/ Until
    \/ StationReports
    \/ generate_report_single_replication

\* env.run processes the next event of the event list as long as there is one
FairReplication == Init /\ [][NextInReplication]_vars /\ WF_vars(NextInReplication)

----------------------------------------------------------------------------
\* Vocabulary of the properties

\* strict overlap of two intervals, as check_collision tests it
Overlap(a, b) == a.end > b.start /\ a.start < b.end

\* the attempts of this replication that are in progress
InProgress ==
    { [ station |-> id[1], start |-> msgs[id].transmit_time,
        end |-> msgs[id].transmit_time + msgs[id].frame_time ] :
      id \in { x \in FrameIds : msgs[x].stage = "in_frame" } }

Interval(a) == [ station |-> a.station, start |-> a.start, end |-> a.end ]

\* every attempt of this replication, completed or in progress
AllAttempts == { Interval(a) : a \in attempts } \cup InProgress

\* the messages of a station that hold its server
GrantedStages == { "transmit_init", "in_frame", "wait_init", "in_backoff",
                   "wait_done", "transmit_done" }

Holding(s) == { n \in Names : msgs[<<s, n>>].stage \in GrantedStages }

AtReplicationEnd == pc \in { "station_reports", "replication_report",
                             "next_replication", "done" }

----------------------------------------------------------------------------
\* C1: two attempts of different stations in one replication whose intervals
\* strictly overlap and that both reached the end of their frame both end
\* with the retry flag set; an attempt that ends flagged adds one to its
\* station's retry count and nothing to its busy time, and the message is
\* not done.
C1_OverlapBothRetry ==
    [][ /\ \A a, b \in attempts' :
             (a.station # b.station /\ Overlap(a, b)) => (a.retry /\ b.retry)
        /\ \A a \in attempts' \ attempts :
             a.retry =>
               /\ stations'[a.station].num_retries = stations[a.station].num_retries + 1
               /\ stations'[a.station].busy_time = stations[a.station].busy_time
               /\ stations'[a.station].nt = stations[a.station].nt
               /\ \A n \in Names : msgs'[<<a.station, n>>].stage # "transmit_done"
      ]_vars

\* two stations started at the same virtual time and both attempts were flagged
C1_Witness ==
    \E a, b \in attempts :
        /\ a.station # b.station
        /\ a.start = b.start
        /\ a.retry /\ b.retry
        /\ \A s \in {a.station, b.station} : stations[s].num_retries >= 1

\* C2: an attempt whose interval strictly overlaps the interval of no other
\* attempt of its replication ends with the retry flag unset.
C2_NonOverlappingNotFlagged ==
    \A a \in attempts :
        (\A b \in AllAttempts \ {Interval(a)} : ~Overlap(a, b)) => ~a.retry

\* C3: the registry holds only frames registered in the current replication;
\* in particular it is empty when a replication starts.
C3_ReplicationsIsolated ==
    \A key \in DOMAIN frames_in_transmit : frames_in_transmit[key].rep = r

\* C4: the system-wide report never fails with a division error.
C4_ReportNeverDividesByZero ==
    failure # "ZeroDivisionError"

\* C5: at the end of a replication every station's utilization and the
\* system-wide utilization are between 0 and 1.
C5_UtilizationInUnitInterval ==
    /\ pc = "replication_report" =>
         /\ \A s \in Stations :
              /\ 0 <= stations[s].U[1]
              /\ stations[s].U[1] <= stations[s].U[2]
         /\ 0 <= Total("busy_time")
         /\ Total("busy_time") <= STEADY_STATE_TIME
    /\ pc \in { "next_replication", "done" } =>
         /\ 0 <= report.mean_U[1]
         /\ report.mean_U[1] <= report.mean_U[2]

\* C6: the counters read at replication end contain no contribution from
\* before the cutoff: a station that was never reset (it completed no message
\* at or after the cutoff, so all it completed, it completed before the
\* cutoff) reports nt, st and busy_time of 0.
C6_NoWarmUpContribution ==
    AtReplicationEnd =>
        \A s \in Stations :
            ~stations[s].initial_reset_completed =>
                /\ stations[s].nt = 0
                /\ stations[s].st = 0
                /\ stations[s].busy_time = 0

\* some counter of the station becomes smaller in the step
Zeroed(s) ==
    \/ stations'[s].nt < stations[s].nt
    \/ stations'[s].st < stations[s].st
    \/ stations'[s].num_retries < stations[s].num_retries
    \/ stations'[s].num_initial_transmits < stations[s].num_initial_transmits
    \/ stations'[s].busy_time < stations[s].busy_time

\* C7: within a replication the reset flag, once set, stays set; the flag is
\* set only at a virtual time at or past the cutoff; and a counter is zeroed
\* only in the step that sets the flag, so never a second time.
C7_ResetAtMostOnce ==
    [][ r' = r =>
          \A s \in Stations :
            /\ stations[s].initial_reset_completed => stations'[s].initial_reset_completed
            /\ (~stations[s].initial_reset_completed /\ stations'[s].initial_reset_completed)
                  => now' >= TRANSIENT_TIME
            /\ Zeroed(s) =>
                  /\ ~stations[s].initial_reset_completed
                  /\ stations'[s].initial_reset_completed
      ]_vars

\* a station whose first arrival came at or after the cutoff has been reset
C7_Witness ==
    \E s \in Stations :
        /\ stations[s].initial_reset_completed
        /\ msgs[<<s, 0>>].arrival_time # None
        /\ msgs[<<s, 0>>].arrival_time >= TRANSIENT_TIME

\* C8: nt never exceeds num_initial_transmits.
C8_SuccessesAtMostInitialTransmits ==
    \A s \in Stations : stations[s].nt <= stations[s].num_initial_transmits

\* after the reset a message is in transmission: it is counted as an initial
\* transmission and not yet as a success
C8_Witness ==
    \E s \in Stations :
        /\ stations[s].initial_reset_completed
        /\ stations[s].num_initial_transmits = 1
        /\ stations[s].nt = 0
        /\ Holding(s) # {}

\* C9: per station at most one message holds the server, and the registry
\* holds at most one frame whose id belongs to the station.
C9_OneMessageAtATime ==
    \A s \in Stations :
        /\ Cardinality(Holding(s)) <= 1
        /\ Cardinality({ key \in DOMAIN frames_in_transmit : key[1] = s }) <= 1

----------------------------------------------------------------------------
\* Vocabulary of the properties about one collision check

\* the next event is the end of a frame: its collision check is about to run
Checking == pc = "run" /\ queue # <<>> /\ Head(queue).kind = "frame_timeout"

CheckId == << Head(queue).station, Head(queue).msg >>
CheckStart == msgs[CheckId].transmit_time
CheckEnd == msgs[CheckId].transmit_time + msgs[CheckId].frame_time

\* some registered frame with another id strictly overlaps the interval
Collides(reg, start, end, frame_id) ==
    \E key \in DOMAIN reg :
        key # frame_id /\ reg[key].end > start /\ reg[key].start < end

\* what the check leaves in the registry when the keys come in the given order
CheckedIn(keys) ==
    check_collision(frames_in_transmit, keys, CheckStart, CheckEnd, CheckId)

\* what the check can leave in the registry, over all orders of the keys
CheckOutcomes == { CheckedIn(keys) : keys \in KeyOrders(DOMAIN frames_in_transmit) }

RetryStages == { "wait_init", "in_backoff", "wait_done" }

\* the reset is performed in the step
ResetIn(s) == ~stations[s].initial_reset_completed /\ stations'[s].initial_reset_completed

C12_RegistryInvariant ==
    [][ /\ \A key \in DOMAIN frames_in_transmit' :
             /\ frames_in_transmit'[key].start <= now'
             /\ now' <= frames_in_transmit'[key].end
             /\ msgs'[key].stage = "in_frame"
             /\ msgs'[key].transmit_time = frames_in_transmit'[key].start
        /\ \A key \in FrameIds :
             msgs'[key].stage = "in_frame" => key \in DOMAIN frames_in_transmit'
        /\ \A key \in FrameIds :
             (msgs'[key].stage = "in_frame" /\ msgs[key].stage # "in_frame")
                 => key \notin DOMAIN frames_in_transmit
      ]_vars

\* C13: with one station no attempt is ever flagged and num_retries stays 0.
C13_OneStationNeverRetries ==
    /\ \A s \in DOMAIN stations : stations[s].num_retries = 0
    /\ \A a \in attempts : ~a.retry
    /\ \A id \in FrameIds : msgs[id].stage \notin RetryStages

\* station 0 had the constant gap g and the constant frame duration d, no
\* attempt was flagged, and the next arrival falls at or after the horizon
ConstantRun(g, d) ==
    /\ d < g
    /\ stations[0].i >= 1
    /\ (stations[0].i + 1) * g >= TERMINATE_TIME
    /\ \A n \in Names :
         n < stations[0].i =>
            /\ msgs[<<0, n>>].arrival_time = (n + 1) * g
            /\ msgs[<<0, n>>].frame_time = d
    /\ \A a \in attempts : ~a.retry

\* C14: in a one-station run with a constant gap and a shorter constant frame
\* duration, nt after the reset is the number of messages that arrived after
\* the cutoff and completed before the horizon.
C14_CountsArrivalsPastCutoff ==
    (AtReplicationEnd /\ stations[0].initial_reset_completed) =>
        \A g \in 1 .. MaxInterArrival : \A d \in FrameTimes :
            ConstantRun(g, d) =>
                stations[0].nt =
                    Cardinality({ n \in Names :
                                    /\ msgs[<<0, n>>].stage = "finished"
                                    /\ msgs[<<0, n>>].arrival_time > TRANSIENT_TIME })

\* C15: check_collision leaves the registered ids and every frame's start,
\* end and duration as they are; when a frame with another id overlaps the
\* checked frame it sets the retry flag of every registered frame, and
\* otherwise it changes no flag.
C15_CheckCollisionBroadcasts ==
    Checking =>
        \A res \in CheckOutcomes :
            /\ DOMAIN res = DOMAIN frames_in_transmit
            /\ \A key \in DOMAIN frames_in_transmit :
                 /\ res[key].start = frames_in_transmit[key].start
                 /\ res[key].end = frames_in_transmit[key].end
                 /\ res[key].frame_time = frames_in_transmit[key].frame_time
            /\ IF Collides(frames_in_transmit, CheckStart, CheckEnd, CheckId)
               THEN \A key \in DOMAIN frames_in_transmit : res[key].retry
               ELSE res = frames_in_transmit

\* a check finds a collision while a frame is registered that does not overlap
\* the checked frame and is not flagged yet
C15_Witness ==
    /\ Checking
    /\ Collides(frames_in_transmit, CheckStart, CheckEnd, CheckId)
    /\ \E key \in DOMAIN frames_in_transmit :
         /\ key # CheckId
         /\ ~collides(frames_in_transmit[key], CheckStart, CheckEnd)
         /\ ~frames_in_transmit[key].retry

\* C16: when the collision check of an attempt is about to run, the virtual
\* time is the frame's end, and the attempt's id is registered and maps to
\* the frame of this attempt; a frame leaves the registry only in the step
\* that checks it, at its end, after the check (a collision visible to the
\* check sends the attempt to the retry branch); the unregistered-id error
\* never happens.
C16_CheckBeforeDeregistration ==
    [][ /\ failure' # "KeyError"
        /\ (Checking /\ r' = r) =>
             /\ CheckId \in DOMAIN frames_in_transmit
             /\ frames_in_transmit[CheckId].start = CheckStart
             /\ frames_in_transmit[CheckId].end = CheckEnd
             /\ frames_in_transmit[CheckId].rep = r
             /\ Head(queue).time = CheckEnd
             /\ now' = CheckEnd
             /\ DOMAIN frames_in_transmit' = DOMAIN frames_in_transmit \ {CheckId}
             /\ Collides(frames_in_transmit, CheckStart, CheckEnd, CheckId)
                  => msgs'[CheckId].stage = "wait_init"
        /\ ~Checking => DOMAIN frames_in_transmit \subseteq DOMAIN frames_in_transmit'
      ]_vars

\* the check of a retransmission is about to run
C16_Witness ==
    /\ Checking
    /\ stations[CheckId[1]].num_retries >= 1
    /\ \E a \in attempts : a.station = CheckId[1] /\ a.msg = CheckId[2]
    /\ CheckId \in DOMAIN frames_in_transmit

\* the event that continues a message in the retry branch
Continuation(stage) ==
    CASE stage = "wait_init" -> "wait_init"
      [] stage = "in_backoff" -> "wait_timeout"
      [] stage = "wait_done" -> "wait_proc"
      [] OTHER -> "none"

\* The steps of the retry loop: a message leaves the transmit loop only from an attempt that ended
\* unflagged; an attempt that ends flagged adds exactly 1 to num_retries and
\* puts the message into the back-off, whose only way on is a new attempt of
\* the same message; meanwhile the station's server stays with the message
\* and the event that continues it is scheduled (there is no give-up path);
\* nt changes only when a message that left the loop is served.
RetryStep ==
    [][ r' = r =>
          \A id \in FrameIds :
            LET s == id[1]
                before == msgs[id].stage
                after == msgs'[id].stage
            IN /\ (before = "in_frame" /\ after # "in_frame") =>
                    \E a \in attempts' \ attempts :
                        /\ a.station = s /\ a.msg = id[2]
                        /\ a.retry =>
                             /\ after = "wait_init"
                             /\ stations'[s].num_retries = stations[s].num_retries + 1
                        /\ ~a.retry =>
                             /\ after = "transmit_done"
                             /\ stations'[s].num_retries = stations[s].num_retries
               /\ (after = "transmit_done" /\ before # "transmit_done") => before = "in_frame"
               /\ before = "wait_init" => after \in { "wait_init", "in_backoff" }
               /\ before = "in_backoff" => after \in { "in_backoff", "wait_done" }
               /\ before = "wait_done" => after \in { "wait_done", "in_frame" }
               /\ after \in RetryStages \cup { "in_frame" } =>
                    stations'[s].users = << id[2] >>
               /\ (after \in RetryStages /\ pc' = "run") =>
                    \E k \in 1 .. Len(queue') :
                        /\ queue'[k].station = s
                        /\ queue'[k].msg = id[2]
                        /\ queue'[k].kind = Continuation(after)
               /\ (s \in DOMAIN stations /\ stations'[s].nt # stations[s].nt) =>
                    \E n \in Names :
                        /\ msgs[<<s, n>>].stage = "transmit_done"
                        /\ msgs'[<<s, n>>].stage = "finished"
      ]_vars

\* C17 (retry until success): RetryStep holds of every step, and an attempt
\* that ends flagged early enough for the longest back-off to end before the
\* horizon is eventually followed by a new attempt of the same message.
C17_RetryUntilSuccess ==
    /\ RetryStep
    /\ \A id \in FrameIds :
         (msgs[id].stage = "wait_init" /\ now + MaxRetryTime < TERMINATE_TIME)
            ~> (msgs[id].stage = "in_frame")

\* a message was flagged twice and then succeeded
C17_Witness ==
    \E id \in FrameIds :
        /\ msgs[id].stage = "transmit_done"
        /\ Cardinality({ a \in attempts :
                           a.station = id[1] /\ a.msg = id[2] /\ a.retry }) >= 2

\* C18: all attempts of a message have the frame duration drawn for the
\* message and are registered under the message's id, and
\* num_initial_transmits grows by exactly 1 when a granted message starts
\* its first attempt and never on a retransmission.
C18_PerMessageConstants ==
    [][ r' = r =>
          /\ \A id \in FrameIds :
               /\ msgs[id].frame_time # None => msgs'[id].frame_time = msgs[id].frame_time
               /\ msgs'[id].stage = "in_frame" =>
                    /\ id \in DOMAIN frames_in_transmit'
                    /\ frames_in_transmit'[id].frame_time = msgs'[id].frame_time
                    /\ frames_in_transmit'[id].end - frames_in_transmit'[id].start
                         = msgs'[id].frame_time
               /\ (msgs[id].stage = "wait_done" /\ msgs'[id].stage = "in_frame") =>
                    stations'[id[1]].num_initial_transmits
                        = stations[id[1]].num_initial_transmits
          /\ \A a, b \in attempts' :
               (a.station = b.station /\ a.msg = b.msg) => a.end - a.start = b.end - b.start
          /\ \A s \in DOMAIN stations :
               stations'[s].num_initial_transmits # stations[s].num_initial_transmits =>
                  \/ ResetIn(s)
                  \/ /\ stations'[s].num_initial_transmits
                          = stations[s].num_initial_transmits + 1
                     /\ \E n \in Names :
                          /\ msgs[<<s, n>>].stage = "transmit_init"
                          /\ msgs'[<<s, n>>].stage = "in_frame"
      ]_vars

\* a message has completed two attempts
C18_Witness ==
    \E a, b \in attempts :
        a.station = b.station /\ a.msg = b.msg /\ a.start < b.start

\* C19: busy_time changes only when an attempt ends unflagged, by the frame
\* duration of the attempt (or to 0 in the reset); st changes only when a
\* completed message is served, by the time since its grant; and that time
\* is at least the frame duration the message added to busy_time.
C19_BusyTimeOnlyOnSuccess ==
    [][ r' = r =>
          \A s \in DOMAIN stations :
            /\ stations'[s].busy_time # stations[s].busy_time =>
                 \/ ResetIn(s) /\ stations'[s].busy_time = 0
                 \/ \E n \in Names :
                      /\ msgs[<<s, n>>].stage = "in_frame"
                      /\ msgs'[<<s, n>>].stage = "transmit_done"
                      /\ stations'[s].busy_time
                           = stations[s].busy_time + msgs[<<s, n>>].frame_time
            /\ \A n \in Names :
                 (msgs[<<s, n>>].stage = "in_frame" /\ msgs'[<<s, n>>].stage = "wait_init")
                    => stations'[s].busy_time = stations[s].busy_time
            /\ \A n \in Names :
                 (msgs[<<s, n>>].stage \in RetryStages)
                    => stations'[s].busy_time = stations[s].busy_time
            /\ stations'[s].st # stations[s].st =>
                 \E n \in Names :
                    /\ msgs[<<s, n>>].stage = "transmit_done"
                    /\ msgs'[<<s, n>>].stage = "finished"
                    /\ \/ ResetIn(s) /\ stations'[s].st = 0
                       \/ stations'[s].st
                            = stations[s].st + (now' - msgs[<<s, n>>].service_start)
            /\ \A n \in Names :
                 (msgs[<<s, n>>].stage = "transmit_done" /\ msgs'[<<s, n>>].stage = "finished")
                    => now' - msgs[<<s, n>>].service_start >= msgs[<<s, n>>].frame_time
      ]_vars

\* a message succeeded after a collision: it added more to st than to busy_time
C19_Witness ==
    \E s \in DOMAIN stations :
        /\ stations[s].busy_time > 0
        /\ stations[s].st > stations[s].busy_time

RECURSIVE Length(_)
Length(A) == IF A = {} THEN 0
             ELSE LET a == CHOOSE x \in A : TRUE IN (a.end - a.start) + Length(A \ {a})

\* C20: an attempt that ended unflagged overlaps no other attempt of its
\* replication, completed or in progress; so the unflagged attempts are
\* pairwise disjoint, and their total length and the sum of all busy_time
\* are at most the elapsed virtual time.
C20_SuccessIsExclusive ==
    /\ \A a \in attempts :
         ~a.retry => \A b \in AllAttempts \ {Interval(a)} : ~Overlap(a, b)
    /\ Length({ a \in attempts : ~a.retry }) <= now
    /\ Total("busy_time") <= now

\* one station succeeded, and then another station succeeded
C20_Witness ==
    \E a, b \in attempts :
        /\ a.station # b.station
        /\ ~a.retry /\ ~b.retry
        /\ a.end <= b.start

====
